---- MODULE Spec2Model ----
(***************************************************************************)
(* scrypto-unit: the TestEnv facade (src/src/lib.rs).                      *)
(*                                                                         *)
(* State: the ledger behind the executor and the TestEnv bookkeeping       *)
(* (users, current_user, packages, current_package).  `last` records the   *)
(* outcome of the most recent resource query, so that the contracts of     *)
(* get_account_vaults, get_amount_for_rd and get_non_fungible_keys_for_rd  *)
(* can be stated over states; `history` records the first user ever       *)
(* created and the user picked by the most recent acting_as.               *)
(***************************************************************************)
EXTENDS Integers, Sequences, FiniteSets, TLC

VARIABLES ledger, users, current_user, packages, current_package, last, history

vars == <<ledger, users, current_user, packages, current_package, last, history>>

book == <<ledger, users, current_user, packages, current_package>>

(***************************************************************************)
(* Bounds and universes.                                                   *)
(***************************************************************************)
MaxUsers == 2

MaxPackages == 1

Names == {"acc1", "acc2"}

PackageNames == {"package"}

Mids == {"m1", "m2"}

Keys == {"k1", "k2"}

Vids == 1..5

RADIX_TOKEN == "XRD"

NFT == "nft"

Res == {RADIX_TOKEN, NFT}

XrdPerAccount == 1000000

Component(n) == <<"component", n>>

Account(n) == <<"account", n>>

Comp == Component(1)

QueryAddrs == {Comp, Account(1)}

Range(s) == {s[i] : i \in DOMAIN s}

EmptyMap == [x \in {} |-> 0]

Perms(S) == {s \in [1..Cardinality(S) -> S] : \A i, j \in DOMAIN s : i # j => s[i] # s[j]}

(***************************************************************************)
(* Ledger values.  A state blob is what validate_data sees: either         *)
(* malformed, or carrying the lazy map and vault references it exposes.    *)
(***************************************************************************)
Blob(valid, lms, vs) == [valid |-> valid, lazy_maps |-> lms, vaults |-> vs]

Vault(res, n, fungible) ==
    [resource_address |-> res,
     amount |-> n,
     has_ids |-> ~fungible,
     ids |-> IF fungible THEN {} ELSE 1..n]

Contents(tag, amount, ks) == [tag |-> tag, amount |-> amount, keys |-> ks]

ContentsAmount(a) == Contents("Amount", a, {})

ContentsNonFungibleKeys(ks) == Contents("NonFungibleKeys", 0, ks)

User(n) == [key |-> n, account |-> Account(n)]

(***************************************************************************)
(* Results of the fallible lookups: unwrap() on a missing value panics.    *)
(***************************************************************************)
Ok(items) == [ok |-> TRUE, items |-> items]

Fail == [ok |-> FALSE, items |-> <<>>]

validate_data(data) ==
    IF data.valid
    THEN [ok |-> TRUE, lazy_maps |-> data.lazy_maps, vaults |-> data.vaults]
    ELSE [ok |-> FALSE, lazy_maps |-> <<>>, vaults |-> <<>>]

get_vault_info_ignoring_kind(l, component_address, vid) ==
    IF <<component_address, vid>> \notin DOMAIN l.vaults THEN Fail
    ELSE LET vault == l.vaults[<<component_address, vid>>] IN
         IF vault.resource_address \notin DOMAIN l.resource_defs THEN Fail
         ELSE Ok(<<<<vault.resource_address, ContentsAmount(vault.amount)>>>>)

get_vault_info(l, component_address, vid) ==
    IF <<component_address, vid>> \notin DOMAIN l.vaults THEN Fail
    ELSE LET vault == l.vaults[<<component_address, vid>>] IN
         IF vault.resource_address \notin DOMAIN l.resource_defs THEN Fail
         ELSE IF l.resource_defs[vault.resource_address] = "Fungible"
              THEN Ok(<<<<vault.resource_address, ContentsAmount(vault.amount)>>>>)
              ELSE IF ~vault.has_ids THEN Fail
                   ELSE Ok(<<<<vault.resource_address,
                               ContentsNonFungibleKeys(vault.ids)>>>>)

RECURSIVE MapVaults(_, _, _)
MapVaults(l, component_address, vids) ==
    IF vids = <<>> THEN Ok(<<>>)
    ELSE LET h == get_vault_info(l, component_address, Head(vids))
             t == MapVaults(l, component_address, Tail(vids))
         IN IF h.ok /\ t.ok THEN Ok(h.items \o t.items) ELSE Fail

RECURSIVE FlatMapEntries(_, _, _, _)
FlatMapEntries(l, component_address, map, order) ==
    IF order = <<>> THEN Ok(<<>>)
    ELSE LET validated_data == validate_data(map[Head(order)])
             h == IF validated_data.ok
                  THEN MapVaults(l, component_address, validated_data.vaults)
                  ELSE Fail
             t == FlatMapEntries(l, component_address, map, Tail(order))
         IN IF h.ok /\ t.ok THEN Ok(h.items \o t.items) ELSE Fail

get_lazymap_info_skipping(l, component_address, id, order) ==
    IF <<component_address, id>> \notin DOMAIN l.lazy_maps THEN Ok(<<>>)
    ELSE FlatMapEntries(l, component_address,
                        l.lazy_maps[<<component_address, id>>], order)

get_lazymap_info(l, component_address, id, order) ==
    IF <<component_address, id>> \notin DOMAIN l.lazy_maps THEN Fail
    ELSE FlatMapEntries(l, component_address,
                        l.lazy_maps[<<component_address, id>>], order)

RECURSIVE FlatMapMids(_, _, _, _)
FlatMapMids(l, component_address, mids, iter) ==
    IF mids = <<>> THEN Ok(<<>>)
    ELSE LET mid == Head(mids)
             h == get_lazymap_info(l, component_address, mid,
                      IF mid \in DOMAIN iter THEN iter[mid] ELSE <<>>)
             t == FlatMapMids(l, component_address, Tail(mids), iter)
         IN IF h.ok /\ t.ok THEN Ok(h.items \o t.items) ELSE Fail

Insert(m, k, v) == [x \in DOMAIN m \cup {k} |-> IF x = k THEN v ELSE m[x]]

RECURSIVE CollectSumming(_)
CollectSumming(items) ==
    IF items = <<>> THEN EmptyMap
    ELSE LET n == Len(items)
             m == CollectSumming(SubSeq(items, 1, n - 1))
             k == items[n][1]
             v == items[n][2]
         IN Insert(m, k, IF k \in DOMAIN m
                         THEN Contents(v.tag, m[k].amount + v.amount, m[k].keys \cup v.keys)
                         ELSE v)

RECURSIVE Collect(_)
Collect(items) ==
    IF items = <<>> THEN EmptyMap
    ELSE LET n == Len(items) IN
         Insert(Collect(SubSeq(items, 1, n - 1)), items[n][1], items[n][2])

get_account_vaults_with_root_vaults(l, component_address, iter) ==
    IF component_address \notin DOMAIN l.components THEN [ok |-> FALSE, vaults |-> EmptyMap]
    ELSE LET validated_data == validate_data(l.components[component_address]) IN
         IF ~validated_data.ok THEN [ok |-> FALSE, vaults |-> EmptyMap]
         ELSE LET flat == FlatMapMids(l, component_address, validated_data.lazy_maps, iter)
                  direct == MapVaults(l, component_address, validated_data.vaults)
              IN IF flat.ok /\ direct.ok
                 THEN [ok |-> TRUE, vaults |-> Collect(direct.items \o flat.items)]
                 ELSE [ok |-> FALSE, vaults |-> EmptyMap]

get_account_vaults_missing_is_empty(l, component_address, iter) ==
    IF component_address \notin DOMAIN l.components THEN [ok |-> TRUE, vaults |-> EmptyMap]
    ELSE LET validated_data == validate_data(l.components[component_address]) IN
         IF ~validated_data.ok THEN [ok |-> FALSE, vaults |-> EmptyMap]
         ELSE LET flat == FlatMapMids(l, component_address, validated_data.lazy_maps, iter) IN
              IF flat.ok THEN [ok |-> TRUE, vaults |-> Collect(flat.items)]
              ELSE [ok |-> FALSE, vaults |-> EmptyMap]

get_account_vaults(l, component_address, iter) ==
    IF component_address \notin DOMAIN l.components THEN [ok |-> FALSE, vaults |-> EmptyMap]
    ELSE LET validated_data == validate_data(l.components[component_address]) IN
         IF ~validated_data.ok THEN [ok |-> FALSE, vaults |-> EmptyMap]
         ELSE LET flat == FlatMapMids(l, component_address, validated_data.lazy_maps, iter) IN
              IF flat.ok THEN [ok |-> TRUE, vaults |-> Collect(flat.items)]
              ELSE [ok |-> FALSE, vaults |-> EmptyMap]

get_amount_for_rd_defaulting(l, component_address, resource_def, iter) ==
    LET vaults == get_account_vaults(l, component_address, iter) IN
    IF ~vaults.ok THEN [index_ok |-> FALSE, vaults |-> EmptyMap, panicked |-> TRUE, amount |-> 0]
    ELSE IF resource_def \in DOMAIN vaults.vaults
            /\ vaults.vaults[resource_def].tag = "Amount"
         THEN [index_ok |-> TRUE, vaults |-> vaults.vaults, panicked |-> FALSE,
               amount |-> vaults.vaults[resource_def].amount]
         ELSE [index_ok |-> TRUE, vaults |-> vaults.vaults, panicked |-> FALSE, amount |-> 0]

get_amount_for_rd(l, component_address, resource_def, iter) ==
    LET vaults == get_account_vaults(l, component_address, iter) IN
    IF ~vaults.ok THEN [index_ok |-> FALSE, vaults |-> EmptyMap, panicked |-> TRUE, amount |-> 0]
    ELSE IF resource_def \in DOMAIN vaults.vaults
         THEN IF vaults.vaults[resource_def].tag = "Amount"
              THEN [index_ok |-> TRUE, vaults |-> vaults.vaults, panicked |-> FALSE,
                    amount |-> vaults.vaults[resource_def].amount]
              ELSE [index_ok |-> TRUE, vaults |-> vaults.vaults, panicked |-> TRUE,
                    amount |-> 0]
         ELSE [index_ok |-> TRUE, vaults |-> vaults.vaults, panicked |-> FALSE, amount |-> 0]

get_non_fungible_keys_for_rd_strict(l, component_address, resource_def, iter) ==
    LET vaults == get_account_vaults(l, component_address, iter) IN
    IF ~vaults.ok THEN [index_ok |-> FALSE, vaults |-> EmptyMap, panicked |-> TRUE, keys |-> {}]
    ELSE IF resource_def \in DOMAIN vaults.vaults
            /\ vaults.vaults[resource_def].tag = "NonFungibleKeys"
         THEN [index_ok |-> TRUE, vaults |-> vaults.vaults, panicked |-> FALSE,
               keys |-> vaults.vaults[resource_def].keys]
         ELSE [index_ok |-> TRUE, vaults |-> vaults.vaults, panicked |-> TRUE, keys |-> {}]

get_non_fungible_keys_for_rd(l, component_address, resource_def, iter) ==
    LET vaults == get_account_vaults(l, component_address, iter) IN
    IF ~vaults.ok THEN [index_ok |-> FALSE, vaults |-> EmptyMap, panicked |-> TRUE, keys |-> {}]
    ELSE IF resource_def \in DOMAIN vaults.vaults
         THEN IF vaults.vaults[resource_def].tag = "NonFungibleKeys"
              THEN [index_ok |-> TRUE, vaults |-> vaults.vaults, panicked |-> FALSE,
                    keys |-> vaults.vaults[resource_def].keys]
              ELSE [index_ok |-> TRUE, vaults |-> vaults.vaults, panicked |-> TRUE,
                    keys |-> {}]
         ELSE [index_ok |-> TRUE, vaults |-> vaults.vaults, panicked |-> FALSE, keys |-> {}]

(***************************************************************************)
(* Iteration orders.  lazy_map.map() is a hash map: iter() visits its      *)
(* entries in an order the map does not specify, so each call draws one    *)
(* order per lazy map stored under the component.                          *)
(***************************************************************************)
MidsOf(l, c) == {m \in Mids : <<c, m>> \in DOMAIN l.lazy_maps}

KeyOrders == UNION {Perms(K) : K \in SUBSET Keys}

IterOrders(l, c) ==
    {f \in [MidsOf(l, c) -> KeyOrders] :
        \A m \in MidsOf(l, c) : f[m] \in Perms(DOMAIN l.lazy_maps[<<c, m>>])}

(***************************************************************************)
(* Initial ledgers: one component whose state graph is drawn from a        *)
(* bounded family (root references, what each vault holds, and at most one *)
(* irregularity), on top of the bootstrap resource definitions.            *)
(***************************************************************************)
RootRefs == {<<>>, <<"m1">>, <<"m1", "m2">>, <<"m2", "m1">>}

RootVaults == {<<>>, <<5>>}

Variants == {"none", "root_malformed", "m1_missing", "m1_empty", "entry_malformed",
             "entry_no_vaults", "vault_missing", "resdef_missing", "ids_unreadable"}

Holdings == {h \in [1..4 -> Res] : h[3] = RADIX_TOKEN /\ h[4] = RADIX_TOKEN}

VariantHoldings == {h \in Holdings : h[1] = NFT /\ h[2] = RADIX_TOKEN}

Kind(res) == IF res = RADIX_TOKEN THEN "Fungible" ELSE "NonFungible"

MkLedger(rootRefs, rootVaults, holds, variant) ==
    LET resOf(v) == IF v = 5 THEN NFT ELSE holds[v]
        m1 == IF variant = "m1_empty" THEN EmptyMap
              ELSE ("k1" :> Blob(variant # "entry_malformed", <<>>,
                                 IF variant = "entry_no_vaults" THEN <<>> ELSE <<1>>))
                   @@ ("k2" :> Blob(TRUE, <<>>, <<2>>))
        m2 == "k1" :> Blob(TRUE, <<>>, <<3, 4>>)
        present == IF variant = "vault_missing" THEN Vids \ {1} ELSE Vids
    IN [components |-> Comp :> Blob(variant # "root_malformed", rootRefs, rootVaults),
        lazy_maps |-> [p \in {<<Comp, m>> : m \in (IF variant = "m1_missing"
                                                   THEN {"m2"} ELSE Mids)} |->
                          IF p[2] = "m1" THEN m1 ELSE m2],
        vaults |-> [p \in {<<Comp, v>> : v \in present} |->
                          Vault(resOf(p[2]), p[2],
                                Kind(resOf(p[2])) = "Fungible"
                                   \/ (variant = "ids_unreadable" /\ p[2] = 1))],
        resource_defs |-> [r \in (IF variant = "resdef_missing" THEN {RADIX_TOKEN} ELSE Res)
                              |-> Kind(r)],
        packages |-> {}]

NoCall ==
    [op |-> "none", component_address |-> Comp, resource_def |-> RADIX_TOKEN,
     iter |-> EmptyMap, index_ok |-> FALSE, vaults |-> EmptyMap, panicked |-> FALSE,
     amount |-> 0, keys |-> {}]

Init ==
    /\ \E rootRefs \in RootRefs, rootVaults \in RootVaults, holds \in Holdings,
          variant \in Variants :
          /\ variant # "none" => (rootVaults = <<>> /\ holds \in VariantHoldings)
          /\ ledger = MkLedger(rootRefs, rootVaults, holds, variant)
    /\ users = EmptyMap
    /\ current_user = <<>>
    /\ packages = EmptyMap
    /\ current_package = <<>>
    /\ last = NoCall
    /\ history = [first_created |-> <<>>, acted_as |-> <<>>]

(***************************************************************************)
(* Bookkeeping operations.                                                 *)
(***************************************************************************)
NumAccounts(l) == Cardinality({n \in 1..(MaxUsers + 1) : Account(n) \in DOMAIN l.components})

new_account(l, n) ==
    [l EXCEPT
       !.components = (Account(n) :> Blob(TRUE, <<"m1">>, <<>>)) @@ @,
       !.lazy_maps = (<<Account(n), "m1">> :> ("k1" :> Blob(TRUE, <<>>, <<1>>))) @@ @,
       !.vaults = (<<Account(n), 1>> :> Vault(RADIX_TOKEN, XrdPerAccount, TRUE)) @@ @]

get_current_user(cu) ==
    IF cu # <<>> THEN [panicked |-> FALSE, user |-> cu]
    ELSE [panicked |-> TRUE, user |-> <<>>]

create_user_always_selecting(name) ==
    /\ NumAccounts(ledger) < MaxUsers
    /\ LET n == NumAccounts(ledger) + 1
           usr == User(n)
       IN /\ ledger' = new_account(ledger, n)
          /\ users' = Insert(users, name, usr)
          /\ current_user' = <<usr>>
          /\ history' = [history EXCEPT !.first_created = IF @ = <<>> THEN <<usr>> ELSE @]
    /\ last' = NoCall
    /\ UNCHANGED <<packages, current_package>>

create_user(name) ==
    /\ NumAccounts(ledger) < MaxUsers
    /\ LET n == NumAccounts(ledger) + 1
           usr == User(n)
       IN /\ ledger' = new_account(ledger, n)
          /\ users' = Insert(users, name, usr)
          /\ current_user' = IF current_user = <<>> THEN <<usr>> ELSE current_user
          /\ history' = [history EXCEPT !.first_created = IF @ = <<>> THEN <<usr>> ELSE @]
    /\ last' = NoCall
    /\ UNCHANGED <<packages, current_package>>

acting_as(name) ==
    /\ name \in DOMAIN users
    /\ current_user' = <<users[name]>>
    /\ history' = [history EXCEPT !.acted_as = <<users[name]>>]
    /\ last' = NoCall
    /\ UNCHANGED <<ledger, users, packages, current_package>>

publish_package(name) ==
    /\ Cardinality(ledger.packages) < MaxPackages
    /\ LET package_addr == Cardinality(ledger.packages) + 1
       IN /\ ledger' = [ledger EXCEPT !.packages = @ \cup {package_addr}]
          /\ packages' = Insert(packages, name, package_addr)
          /\ current_package' = IF current_package = <<>> THEN <<package_addr>>
                                ELSE current_package
    /\ last' = NoCall
    /\ UNCHANGED <<users, current_user, history>>

using_package(name) ==
    /\ name \in DOMAIN packages
    /\ current_package' = <<packages[name]>>
    /\ last' = NoCall
    /\ UNCHANGED <<ledger, users, current_user, packages, history>>

(***************************************************************************)
(* The three resource queries.                                             *)
(***************************************************************************)
CallGetAccountVaults(component_address) ==
    /\ \E iter \in IterOrders(ledger, component_address) :
          LET r == get_account_vaults(ledger, component_address, iter) IN
          last' = [op |-> "get_account_vaults", component_address |-> component_address,
                   resource_def |-> RADIX_TOKEN, iter |-> iter, index_ok |-> r.ok,
                   vaults |-> r.vaults, panicked |-> ~r.ok, amount |-> 0, keys |-> {}]
    /\ UNCHANGED <<book, history>>

CallGetAmountForRd_resetting(component_address, resource_def) ==
    \E iter \in IterOrders(ledger, component_address) :
       LET r == get_amount_for_rd(ledger, component_address, resource_def, iter) IN
       /\ last' = [op |-> "get_amount_for_rd", component_address |-> component_address,
                   resource_def |-> resource_def, iter |-> iter, index_ok |-> r.index_ok,
                   vaults |-> r.vaults, panicked |-> r.panicked, amount |-> r.amount,
                   keys |-> {}]
       /\ current_user' = IF r.panicked THEN <<>> ELSE current_user
       /\ UNCHANGED <<ledger, users, packages, current_package, history>>

CallGetAmountForRd(component_address, resource_def) ==
    /\ \E iter \in IterOrders(ledger, component_address) :
          LET r == get_amount_for_rd(ledger, component_address, resource_def, iter) IN
          last' = [op |-> "get_amount_for_rd", component_address |-> component_address,
                   resource_def |-> resource_def, iter |-> iter, index_ok |-> r.index_ok,
                   vaults |-> r.vaults, panicked |-> r.panicked, amount |-> r.amount,
                   keys |-> {}]
    /\ UNCHANGED <<book, history>>

CallGetNonFungibleKeysForRd(component_address, resource_def) ==
    /\ \E iter \in IterOrders(ledger, component_address) :
          LET r == get_non_fungible_keys_for_rd(ledger, component_address, resource_def, iter) IN
          last' = [op |-> "get_non_fungible_keys_for_rd",
                   component_address |-> component_address,
                   resource_def |-> resource_def, iter |-> iter, index_ok |-> r.index_ok,
                   vaults |-> r.vaults, panicked |-> r.panicked, amount |-> 0,
                   keys |-> r.keys]
    /\ UNCHANGED <<book, history>>

Next ==
    \/ \E name \in Names : create_user(name)
    \/ \E name \in Names : acting_as(name)
    \/ \E name \in PackageNames : publish_package(name)
    \/ \E name \in PackageNames : using_package(name)
    \/ \E c \in QueryAddrs : CallGetAccountVaults(c)
    \/ \E c \in QueryAddrs, r \in Res : CallGetAmountForRd(c, r)
    \/ \E c \in QueryAddrs, r \in Res : CallGetNonFungibleKeysForRd(c, r)

Spec == Init /\ [][Next]_vars

(***************************************************************************)
(* What the traversal is specified to see, stated on the ledger alone.     *)
(***************************************************************************)
IsQuery == last.op \in {"get_account_vaults", "get_amount_for_rd",
                        "get_non_fungible_keys_for_rd"}

Exists(l, c) == c \in DOMAIN l.components

RootState(l, c) == l.components[c]

EntryVaults(l, c, mid, key) == l.lazy_maps[<<c, mid>>][key].vaults

\* One record per vault reference met by the walk: ci is the position of the
\* container in the root state, ei the position of the entry in the order the
\* container was iterated in, vi the position of the reference in the entry.
Visits(l, c, iter) ==
    IF ~Exists(l, c) \/ ~RootState(l, c).valid THEN {}
    ELSE LET root == RootState(l, c).lazy_maps IN
         UNION {UNION {{[ci |-> ci, ei |-> ei, vi |-> vi,
                         vid |-> EntryVaults(l, c, root[ci], iter[root[ci]][ei])[vi]] :
                           vi \in DOMAIN EntryVaults(l, c, root[ci], iter[root[ci]][ei])} :
                       ei \in {e \in DOMAIN iter[root[ci]] :
                                 l.lazy_maps[<<c, root[ci]>>][iter[root[ci]][e]].valid}} :
                ci \in {i \in DOMAIN root : root[i] \in DOMAIN iter}}

VaultAt(l, c, vid) == l.vaults[<<c, vid>>]

Holds(l, c, vid, R) ==
    <<c, vid>> \in DOMAIN l.vaults /\ VaultAt(l, c, vid).resource_address = R

LedgerContents(l, c, vid) ==
    IF l.resource_defs[VaultAt(l, c, vid).resource_address] = "Fungible"
    THEN ContentsAmount(VaultAt(l, c, vid).amount)
    ELSE ContentsNonFungibleKeys(VaultAt(l, c, vid).ids)

Later(a, b) ==
    \/ a.ci > b.ci
    \/ a.ci = b.ci /\ a.ei > b.ei
    \/ a.ci = b.ci /\ a.ei = b.ei /\ a.vi > b.vi

LastVisit(S) == CHOOSE x \in S : \A y \in S \ {x} : Later(x, y)

(***************************************************************************)
(* C1: whenever get_account_vaults succeeds, every entry (R, c) of the     *)
(* returned map is backed by a vault the walk visited that holds R, and c  *)
(* is Amount(ledger amount) when R is Fungible and NonFungibleKeys(ledger  *)
(* ids) when R is NonFungible.                                             *)
(***************************************************************************)
C1_EntriesBackedByVaults ==
    (last.op = "get_account_vaults" /\ ~last.panicked) =>
        \A R \in DOMAIN last.vaults :
            \E x \in Visits(ledger, last.component_address, last.iter) :
                /\ Holds(ledger, last.component_address, x.vid, R)
                /\ ledger.resource_defs[R] = "Fungible" =>
                      last.vaults[R] =
                         ContentsAmount(VaultAt(ledger, last.component_address, x.vid).amount)
                /\ ledger.resource_defs[R] = "NonFungible" =>
                      last.vaults[R] =
                         ContentsNonFungibleKeys(VaultAt(ledger, last.component_address, x.vid).ids)

C1_Witness ==
    /\ last.op = "get_account_vaults"
    /\ ~last.panicked
    /\ DOMAIN last.vaults = {RADIX_TOKEN, NFT}
    /\ last.vaults[RADIX_TOKEN].tag = "Amount"
    /\ last.vaults[NFT].tag = "NonFungibleKeys"
    /\ last.vaults[NFT].keys # {}

(***************************************************************************)
(* C2: a kind mismatch is fatal.  If the index built by the call holds R   *)
(* as NonFungibleKeys, get_amount_for_rd panics; if it holds R as Amount,  *)
(* get_non_fungible_keys_for_rd panics.                                    *)
(***************************************************************************)
C2_KindMismatchIsFatal ==
    /\ (/\ last.op = "get_amount_for_rd"
        /\ last.index_ok
        /\ last.resource_def \in DOMAIN last.vaults
        /\ last.vaults[last.resource_def].tag = "NonFungibleKeys") => last.panicked
    /\ (/\ last.op = "get_non_fungible_keys_for_rd"
        /\ last.index_ok
        /\ last.resource_def \in DOMAIN last.vaults
        /\ last.vaults[last.resource_def].tag = "Amount") => last.panicked

C2_Witness ==
    /\ last.op = "get_amount_for_rd"
    /\ last.index_ok
    /\ last.resource_def = NFT
    /\ NFT \in DOMAIN last.vaults
    /\ last.vaults[NFT].tag = "NonFungibleKeys"
    /\ last.panicked

(***************************************************************************)
(* C3: when two distinct vaults visited by one successful walk hold the    *)
(* same resource R, the map has R exactly once, with the contents of the   *)
(* vault visited last (containers in root-state order, entries in the      *)
(* container's iteration order, vaults in entry order); nothing is summed. *)
(***************************************************************************)
VisitsHolding(R) ==
    {x \in Visits(ledger, last.component_address, last.iter) :
        Holds(ledger, last.component_address, x.vid, R)}

C3_LastWriteWins ==
    (last.op = "get_account_vaults" /\ ~last.panicked) =>
        \A R \in Res :
            Cardinality({x.vid : x \in VisitsHolding(R)}) >= 2 =>
                /\ R \in DOMAIN last.vaults
                /\ last.vaults[R] =
                      LedgerContents(ledger, last.component_address,
                                     LastVisit(VisitsHolding(R)).vid)

C3_Witness ==
    /\ last.op = "get_account_vaults"
    /\ ~last.panicked
    /\ \E R \in Res :
          /\ Cardinality({x.vid : x \in VisitsHolding(R)}) >= 2
          /\ \E x \in VisitsHolding(R) :
                last.vaults[R] # LedgerContents(ledger, last.component_address, x.vid)

(***************************************************************************)
(* C4: completeness of discovery.  After a successful get_account_vaults,  *)
(* the resource of every vault reachable from the component's state,       *)
(* referenced directly by the root state or by the embedded state of a     *)
(* container entry, is a key of the returned map.                          *)
(***************************************************************************)
ReachableVids(l, c, iter) ==
    (IF Exists(l, c) /\ RootState(l, c).valid THEN Range(RootState(l, c).vaults) ELSE {})
        \cup {x.vid : x \in Visits(l, c, iter)}

C4_EveryReachableVaultReported ==
    (last.op = "get_account_vaults" /\ ~last.panicked) =>
        \A vid \in ReachableVids(ledger, last.component_address, last.iter) :
            <<last.component_address, vid>> \in DOMAIN ledger.vaults =>
                VaultAt(ledger, last.component_address, vid).resource_address
                    \in DOMAIN last.vaults

(***************************************************************************)
(* C5: for an existing component whose validated root state has no lazy    *)
(* map references, get_account_vaults returns the empty mapping, whatever  *)
(* vaults the root state references directly.                              *)
(***************************************************************************)
NoContainers(l, c) ==
    Exists(l, c) /\ RootState(l, c).valid /\ RootState(l, c).lazy_maps = <<>>

C5_NoContainersEmptyIndex ==
    (last.op = "get_account_vaults" /\ NoContainers(ledger, last.component_address)) =>
        (~last.panicked /\ DOMAIN last.vaults = {})

C5_Witness ==
    /\ last.op = "get_account_vaults"
    /\ NoContainers(ledger, last.component_address)
    /\ RootState(ledger, last.component_address).vaults # <<>>
    /\ ~last.panicked
    /\ DOMAIN last.vaults = {}

(***************************************************************************)
(* C6: absent holding is not an error.  As claimed: for every existing     *)
(* component and every resource R held by no vault discovered from it,     *)
(* get_amount_for_rd returns zero and get_non_fungible_keys_for_rd returns *)
(* the empty collection.                                                   *)
(***************************************************************************)
AbsentHolding ==
    /\ Exists(ledger, last.component_address)
    /\ VisitsHolding(last.resource_def) = {}

ReturnsDefault ==
    /\ ~last.panicked
    /\ last.op = "get_amount_for_rd" => last.amount = 0
    /\ last.op = "get_non_fungible_keys_for_rd" => last.keys = {}

C6_AbsentHoldingDefault_AsClaimed ==
    (last.op \in {"get_amount_for_rd", "get_non_fungible_keys_for_rd"} /\ AbsentHolding)
        => ReturnsDefault

(***************************************************************************)
(* C6 (amended): for every component on which the index build of the call  *)
(* succeeds and every resource R held by no vault the walk visited, both   *)
(* queries return the default (zero, the empty collection), whatever the   *)
(* kind of R and whatever else the component holds.                        *)
(***************************************************************************)
C6_AbsentHoldingDefault ==
    (/\ last.op \in {"get_amount_for_rd", "get_non_fungible_keys_for_rd"}
     /\ last.index_ok
     /\ AbsentHolding) => ReturnsDefault

C6_Witness ==
    /\ last.op = "get_non_fungible_keys_for_rd"
    /\ last.index_ok
    /\ AbsentHolding
    /\ DOMAIN last.vaults # {}
    /\ last.resource_def \in DOMAIN ledger.resource_defs
    /\ ~last.panicked
    /\ last.keys = {}

(***************************************************************************)
(* C7: for a component address the ledger does not know, the index build   *)
(* is fatal and no mapping is returned; hence a query that returns (in     *)
(* particular with the absent-holding default) was made on a component     *)
(* that exists.                                                            *)
(***************************************************************************)
C7_UnknownComponentIsFatal ==
    /\ (IsQuery /\ ~Exists(ledger, last.component_address)) =>
          (last.panicked /\ ~last.index_ok)
    /\ (IsQuery /\ ~last.panicked) => Exists(ledger, last.component_address)

C7_Witness ==
    /\ last.op = "get_account_vaults"
    /\ ~Exists(ledger, last.component_address)
    /\ last.panicked

(***************************************************************************)
(* C8: no partial success.  If any lookup of the walk fails (a referenced  *)
(* container is missing, an entry's state is rejected by the validator, a  *)
(* visited vault or its resource definition is missing, or the ids of a    *)
(* vault of a NonFungible resource cannot be listed), the call panics and  *)
(* returns no mapping.                                                     *)
(***************************************************************************)
ContainerFails(l, c, mid) ==
    \/ <<c, mid>> \notin DOMAIN l.lazy_maps
    \/ \E key \in DOMAIN l.lazy_maps[<<c, mid>>] : ~l.lazy_maps[<<c, mid>>][key].valid

VaultFails(l, c, vid) ==
    \/ <<c, vid>> \notin DOMAIN l.vaults
    \/ VaultAt(l, c, vid).resource_address \notin DOMAIN l.resource_defs
    \/ /\ l.resource_defs[VaultAt(l, c, vid).resource_address] = "NonFungible"
       /\ ~VaultAt(l, c, vid).has_ids

SomeLookupFails(l, c, iter) ==
    /\ Exists(l, c)
    /\ RootState(l, c).valid
    /\ \/ \E mid \in Range(RootState(l, c).lazy_maps) : ContainerFails(l, c, mid)
       \/ \E x \in Visits(l, c, iter) : VaultFails(l, c, x.vid)

C8_NoPartialSuccess ==
    (IsQuery /\ SomeLookupFails(ledger, last.component_address, last.iter)) =>
        (last.panicked /\ ~last.index_ok /\ DOMAIN last.vaults = {})

C8_Witness ==
    /\ last.op = "get_account_vaults"
    /\ Exists(ledger, last.component_address)
    /\ RootState(ledger, last.component_address).valid
    /\ Len(RootState(ledger, last.component_address).lazy_maps) = 2
    /\ ~ContainerFails(ledger, last.component_address,
                       RootState(ledger, last.component_address).lazy_maps[1])
    /\ \A x \in Visits(ledger, last.component_address, last.iter) :
          x.ci = 1 => ~VaultFails(ledger, last.component_address, x.vid)
    /\ SomeLookupFails(ledger, last.component_address, last.iter)
    /\ last.panicked

(***************************************************************************)
(* C9: idempotence.  Two successive get_account_vaults calls on the same   *)
(* component, with the ledger unchanged in between, return equal mappings  *)
(* (the same vault survives for a resource held by several vaults).        *)
(***************************************************************************)
C9_SuccessiveCallsAgree ==
    [][(/\ last.op = "get_account_vaults"
        /\ last'.op = "get_account_vaults"
        /\ last'.component_address = last.component_address
        /\ ledger' = ledger)
          => (last'.panicked = last.panicked /\ last'.vaults = last.vaults)]_vars

(***************************************************************************)
(* C10: the three queries are pure reads.  A step that performs a query,   *)
(* whether it returns or panics, leaves the ledger, users, current_user,   *)
(* packages and current_package unchanged.                                 *)
(***************************************************************************)
QueryStep ==
    /\ last' # last
    /\ last'.op \in {"get_account_vaults", "get_amount_for_rd",
                     "get_non_fungible_keys_for_rd"}

C10_QueriesArePureReads ==
    [][QueryStep => UNCHANGED <<ledger, users, current_user, packages, current_package>>]_vars

C10_Witness ==
    /\ last.op = "get_amount_for_rd"
    /\ last.index_ok
    /\ last.panicked
    /\ DOMAIN users # {}
    /\ current_user # <<>>
    /\ DOMAIN packages # {}
    /\ current_package # <<>>

(***************************************************************************)
(* C11: current-user selection.  In every state get_current_user returns   *)
(* the user picked by the most recent acting_as, or, when acting_as was    *)
(* never called, the first user ever created; a create_user made after the *)
(* selection does not change it; get_current_user panics only when no user *)
(* has ever been created.                                                  *)
(***************************************************************************)
C11_CurrentUserSelection ==
    LET r == get_current_user(current_user) IN
    /\ history.acted_as # <<>> => (~r.panicked /\ r.user = history.acted_as)
    /\ (history.acted_as = <<>> /\ history.first_created # <<>>) =>
          (~r.panicked /\ r.user = history.first_created)
    /\ r.panicked => history.first_created = <<>>

C11_Witness ==
    /\ history.first_created # <<>>
    /\ history.acted_as # <<>>
    /\ history.acted_as # history.first_created
    /\ Cardinality(DOMAIN users) = 2
    /\ get_current_user(current_user).user = history.acted_as

(***************************************************************************)
(* C12: in every state reached by create_user (also with a name that is    *)
(* already registered) and acting_as, current_user is unset or equal to a  *)
(* User stored in the users table under some name.                         *)
(***************************************************************************)
C12_CurrentUserIsRegistered ==
    current_user = <<>> \/ \E name \in DOMAIN users : users[name] = current_user[1]

====
